---- MODULE Spec2Model ----
(***************************************************************************)
(* Cycle-level model of the speculative front end of the hazardflow CPU:   *)
(* branch predictor tables, the fetch stage's next-PC logic and predictor  *)
(* step, and the execute stage's branch resolution and resolver; and the   *)
(* processing element of the gemmini systolic array.                       *)
(***************************************************************************)
EXTENDS Integers, Sequences, FiniteSets, TLC

VARIABLES
    ex_in,      \* inputs of one evaluation of the execute stage's functions
    ex_out,     \* their results ("idle" before the evaluation)
    fe_in,      \* inputs of one evaluation of the fetch stage's closures
    fe_out,     \* their results
    sat,        \* a SatCounter under a sequence of increment/decrement calls
    tab,        \* a Bht and a Btb under a sequence of update calls, with the reads
    pe,         \* a processing element under a sequence of inputs
    pcreg,      \* fetch: the next-PC register, HOption<(pc, HOption<BpUpdate>)>
    bp,         \* fetch: the predictor state (BHT, BTB) of fsm_map
    decreg,     \* decode: the stage register, HOption<FetEP>
    exereg,     \* execute: the stage register, HOption<(DecEP, alu_out)>
    memv,       \* the memory stage holds an instruction
    inp,        \* this cycle's inputs from outside the modelled stages
    g_src,      \* history: the branch whose update event pcreg carries
    g_exe,      \* history: the branch in execute and whether pcreg took its update
    g_next,     \* history: the number to give to the next tracked branch
    g_log,      \* history: the branches whose updates the predictor applied
    g_lost,     \* history: a retired branch's update never entered pcreg
    g_ent,      \* history: the table entries the applied updates of g_log wrote
    g_started,  \* history: the memory port has answered a request since reset
    g_stale     \* history: the request in pcreg was there when a redirect cancelled it

exeVars == <<ex_in, ex_out>>

fetVars == <<fe_in, fe_out>>

satVars == <<sat>>

tabVars == <<tab>>

peVars == <<pe>>

cpuVars == <<pcreg, bp, decreg, exereg, memv, inp, g_src, g_exe, g_next, g_log, g_lost,
             g_ent, g_started, g_stale>>

vars == <<ex_in, ex_out, fe_in, fe_out, sat, tab, pe, pcreg, bp, decreg, exereg, memv, inp,
          g_src, g_exe, g_next, g_log, g_lost, g_ent, g_started, g_stale>>

(***************************************************************************)
(* Values.                                                                 *)
(***************************************************************************)

\* A u32 value v is held as the integer of -2^31 .. 2^31 - 1 that is
\* congruent to v modulo 2^32 (the two's-complement reading of its 32 bits):
\* v itself below 2^31 and v - 2^32 from 2^31 on, so 4294967292 is written -4
\* and 2147483648 is written -2147483647 - 1.  Equality of u32 values is
\* equality of their integers.

\* a + b on u32 in the generated hardware and in a build without overflow
\* checks: the low 32 bits of the sum
Add32(a, b) ==
    IF a >= 0 /\ b >= 0 /\ a > 2147483647 - b
    THEN (a - 2147483647 - 1) + (b - 2147483647 - 1)
    ELSE IF a < 0 /\ b < 0 /\ a < (-2147483647 - 1) - b
    THEN (a + 2147483647 + 1) + (b + 2147483647 + 1)
    ELSE a + b

\* a + b on u32 exceeds 2^32 - 1: a build with overflow checks panics at the
\* addition ("attempt to add with overflow")
Add32Overflows(a, b) ==
    IF (a < 0) = (b < 0) THEN a < 0 ELSE a + b >= 0

\* (v as usize) % n for a u32 value v and a table size n
usize_mod(v, n) ==
    IF v >= 0 THEN v % n
    ELSE ((v % n) + 2 * ((2147483647 % n) + 1)) % n

\* the low 32 bits of the sum of two u32 values, added 16 bits at a time
Sum32(a, b) ==
    LET lo == (a % 65536) + (b % 65536)
        hi == (((a \div 65536) % 65536) + ((b \div 65536) % 65536) + (lo \div 65536)) % 65536
    IN  (IF hi >= 32768 THEN hi - 65536 ELSE hi) * 65536 + (lo % 65536)

\* HOption<T>
None == [some |-> FALSE]

Some(x) == [some |-> TRUE, v |-> x]

\* HOption::or
OptOr(a, b) == IF a.some THEN a ELSE b

\* BpUpdate::Bht { pc, taken }
BhtUpdate(pc, taken) == [tag |-> "Bht", pc |-> pc, taken |-> taken]

\* BpUpdate::Btb { pc, target }
BtbUpdate(pc, target) == [tag |-> "Btb", pc |-> pc, target |-> target]

BrTypes == {"Jal", "Jalr", "Beq", "Bne", "Bge", "Bgeu", "Blt", "Bltu"}

EqGeFamily == {"Beq", "Bge", "Bgeu"}

NeLtFamily == {"Bne", "Blt", "Bltu"}

(***************************************************************************)
(* Branch predictor (cpu/branch_predictor).                                *)
(***************************************************************************)

\* Capacities of the two tables (powers of two).
BHT_ENTRIES == 8

BTB_ENTRIES == 8

SatCounters == {"StronglyNotTaken", "WeaklyNotTaken", "WeaklyTaken", "StronglyTaken"}

mC27_increment(c) ==
    CASE c = "StronglyNotTaken" -> "WeaklyNotTaken"
      [] c = "WeaklyNotTaken"   -> "WeaklyTaken"
      [] c = "WeaklyTaken"      -> "WeaklyTaken"
      [] c = "StronglyTaken"    -> "StronglyTaken"

mC20_increment(c) ==
    CASE c = "StronglyNotTaken" -> "WeaklyNotTaken"
      [] c = "WeaklyNotTaken"   -> "WeaklyTaken"
      [] c = "WeaklyTaken"      -> "StronglyTaken"
      [] c = "StronglyTaken"    -> "StronglyNotTaken"

\* SatCounter::increment
increment(c) ==
    CASE c = "StronglyNotTaken" -> "WeaklyNotTaken"
      [] c = "WeaklyNotTaken"   -> "WeaklyTaken"
      [] c = "WeaklyTaken"      -> "StronglyTaken"
      [] c = "StronglyTaken"    -> "StronglyTaken"

mC21_decrement(c) ==
    CASE c = "StronglyNotTaken" -> "StronglyTaken"
      [] c = "WeaklyNotTaken"   -> "StronglyNotTaken"
      [] c = "WeaklyTaken"      -> "WeaklyNotTaken"
      [] c = "StronglyTaken"    -> "WeaklyTaken"

\* SatCounter::decrement
decrement(c) ==
    CASE c = "StronglyNotTaken" -> "StronglyNotTaken"
      [] c = "WeaklyNotTaken"   -> "StronglyNotTaken"
      [] c = "WeaklyTaken"      -> "WeaklyNotTaken"
      [] c = "StronglyTaken"    -> "WeaklyTaken"

\* SatCounter::predict
sat_predict(c) ==
    CASE c \in {"StronglyNotTaken", "WeaklyNotTaken"} -> FALSE
      [] c \in {"WeaklyTaken", "StronglyTaken"}       -> TRUE

\* Bht::default: every entry is the default counter, WeaklyNotTaken
mC28_Bht_default == [i \in 0 .. BHT_ENTRIES - 1 |-> "WeaklyTaken"]

\* Bht::default: every counter is the default counter
Bht_default == [i \in 0 .. BHT_ENTRIES - 1 |-> "WeaklyNotTaken"]

mC25_Bht_predict(bht, pc) == sat_predict(bht[((pc \div BHT_ENTRIES) + pc) % BHT_ENTRIES])

\* Bht::predict
Bht_predict(bht, pc) == sat_predict(bht[usize_mod(pc, BHT_ENTRIES)])

mC22_Bht_update(bht, pc, taken) ==
    LET index       == usize_mod(pc, BHT_ENTRIES)
        counter     == bht[index]
        new_counter == IF taken THEN increment(counter) ELSE decrement(counter)
    IN  [i \in DOMAIN bht |-> IF i = index THEN new_counter ELSE "WeaklyNotTaken"]

mC23_Bht_update(bht, pc, taken) ==
    LET index       == usize_mod(pc, BHT_ENTRIES)
        counter     == bht[index]
        new_counter == IF taken THEN decrement(counter) ELSE increment(counter)
    IN  [bht EXCEPT ![index] = new_counter]

\* Bht::update
Bht_update(bht, pc, taken) ==
    LET index       == usize_mod(pc, BHT_ENTRIES)
        counter     == bht[index]
        new_counter == IF taken THEN increment(counter) ELSE decrement(counter)
    IN  [bht EXCEPT ![index] = new_counter]

\* Btb::default: every entry is empty
Btb_default == [i \in 0 .. BTB_ENTRIES - 1 |-> None]

\* Btb::predict
Btb_predict(btb, pc) == btb[usize_mod(pc, BTB_ENTRIES)]

mC24_Btb_update(btb, pc, target) ==
    LET index     == usize_mod(pc, BTB_ENTRIES)
        new_entry == IF btb[index].some THEN btb[index] ELSE Some(target)
    IN  [btb EXCEPT ![index] = new_entry]

mC26_Btb_update(btb, pc, target) ==
    LET index     == usize_mod(pc, BTB_ENTRIES)
        new_entry == IF btb[index] = Some(target) THEN None ELSE Some(target)
    IN  [btb EXCEPT ![index] = new_entry]

\* Btb::update
Btb_update(btb, pc, target) ==
    LET index     == usize_mod(pc, BTB_ENTRIES)
        new_entry == Some(target)
    IN  [btb EXCEPT ![index] = new_entry]

\* Bp::default: the predictor state is the pair of tables
Bp_default == [bht |-> Bht_default, btb |-> Btb_default]

\* pre_decode: the classification of an instruction word.  An instruction
\* word is modelled by its operation kind and its immediate.
pre_decode(inst) ==
    [ is_jal    |-> inst.kind = "Jal",
      is_jalr   |-> inst.kind = "Jalr",
      is_branch |-> inst.kind \in (EqGeFamily \cup NeLtFamily),
      imm       |-> inst.imm ]

\* Bp::predict: the BHT is consulted for a conditional branch and the BTB for
\* an indirect jump, where an empty BTB entry predicts pc + 4; a field that is
\* not consulted keeps the value of fetch's default BpResult.
Bp_predict(s, imem_resp) ==
    LET pd  == pre_decode(imem_resp.data)
        hit == Btb_predict(s.btb, imem_resp.addr)
    IN  [ pre_decode |-> pd,
          bht |-> IF pd.is_branch THEN Bht_predict(s.bht, imem_resp.addr) ELSE FALSE,
          btb |-> IF pd.is_jalr
                  THEN (IF hit.some THEN hit.v ELSE Add32(imem_resp.addr, 4))
                  ELSE 0 ]

\* Bp::update: dispatch on the update event's tag
Bp_update(s, update) ==
    CASE update.tag = "Bht" -> [s EXCEPT !.bht = Bht_update(s.bht, update.pc, update.taken)]
      [] update.tag = "Btb" -> [s EXCEPT !.btb = Btb_update(s.btb, update.pc, update.target)]

(***************************************************************************)
(* Execute stage (cpu/exe.rs).                                             *)
(***************************************************************************)

mC8_ExeR_new(memr, bypass, stall, redirect, bp_update) ==
    [ bypass_from_exe |-> bypass,
      bypass_from_mem |-> memr.bypass_from_mem,
      bypass_from_wb  |-> memr.bypass_from_wb,
      stall           |-> stall,
      redirect        |-> OptOr(redirect, memr.redirect),
      rf              |-> memr.rf,
      bp_update       |-> bp_update ]

mC32_ExeR_new(memr, bypass, stall, redirect, bp_update) ==
    [ bypass_from_exe |-> bypass,
      bypass_from_mem |-> memr.bypass_from_wb,
      bypass_from_wb  |-> memr.bypass_from_mem,
      stall           |-> stall,
      redirect        |-> OptOr(memr.redirect, redirect),
      rf              |-> memr.rf,
      bp_update       |-> bp_update ]

\* ExeR::new
ExeR_new(memr, bypass, stall, redirect, bp_update) ==
    [ bypass_from_exe |-> bypass,
      bypass_from_mem |-> memr.bypass_from_mem,
      bypass_from_wb  |-> memr.bypass_from_wb,
      stall           |-> stall,
      redirect        |-> OptOr(memr.redirect, redirect),
      rf              |-> memr.rf,
      bp_update       |-> bp_update ]

\* the branch target of get_redirect: br_info.base + br_info.offset
br_target(br_info) == Add32(br_info.base, br_info.offset)

mC5_jal_redirect(p, target) == <<Some(target), None>>

\* get_redirect, BrType::Jal arm
jal_redirect(p, target) == <<None, None>>

mC4_jalr_redirect(p, target) ==
    IF target = p.bp_result.btb
    THEN <<None, None>>
    ELSE <<Some(target), Some(BtbUpdate(p.pc, p.bp_result.btb))>>

\* get_redirect, BrType::Jalr arm
jalr_redirect(p, target) ==
    IF target = p.bp_result.btb
    THEN <<None, None>>
    ELSE <<Some(target), Some(BtbUpdate(p.pc, target))>>

mC1_eqge_redirect(p, target, alu_true) ==
    IF ~alu_true
    THEN IF p.bp_result.bht
         THEN <<None, Some(BhtUpdate(p.pc, TRUE))>>
         ELSE <<Some(target), Some(BhtUpdate(p.pc, TRUE))>>
    ELSE <<None, Some(BhtUpdate(p.pc, FALSE))>>

mC3_eqge_redirect(p, target, alu_true) ==
    IF ~alu_true
    THEN IF p.bp_result.bht
         THEN <<None, Some(BhtUpdate(p.pc, TRUE))>>
         ELSE <<Some(target), Some(BhtUpdate(p.pc, TRUE))>>
    ELSE IF p.bp_result.bht
         THEN <<Some(Add32(p.pc, 4)), Some(BhtUpdate(p.pc, TRUE))>>
         ELSE <<None, None>>

\* get_redirect, BrType::Beq | BrType::Bge | BrType::Bgeu arm
eqge_redirect(p, target, alu_true) ==
    IF ~alu_true
    THEN IF p.bp_result.bht
         THEN <<None, Some(BhtUpdate(p.pc, TRUE))>>
         ELSE <<Some(target), Some(BhtUpdate(p.pc, TRUE))>>
    ELSE IF p.bp_result.bht
         THEN <<Some(Add32(p.pc, 4)), Some(BhtUpdate(p.pc, FALSE))>>
         ELSE <<None, Some(BhtUpdate(p.pc, FALSE))>>

mC2_nelt_redirect(p, target, alu_true) ==
    IF alu_true
    THEN IF p.bp_result.bht
         THEN <<None, Some(BhtUpdate(p.pc, TRUE))>>
         ELSE <<Some(Add32(p.pc, 4)), Some(BhtUpdate(p.pc, TRUE))>>
    ELSE IF p.bp_result.bht
         THEN <<Some(target), Some(BhtUpdate(p.pc, FALSE))>>
         ELSE <<None, Some(BhtUpdate(p.pc, FALSE))>>

mC6_nelt_redirect(p, target, alu_true) ==
    IF ~alu_true
    THEN IF p.bp_result.bht
         THEN <<None, Some(BhtUpdate(p.pc, TRUE))>>
         ELSE <<Some(target), Some(BhtUpdate(p.pc, TRUE))>>
    ELSE IF p.bp_result.bht
         THEN <<Some(Add32(p.pc, 4)), Some(BhtUpdate(p.pc, FALSE))>>
         ELSE <<None, Some(BhtUpdate(p.pc, FALSE))>>

\* get_redirect, BrType::Bne | BrType::Blt | BrType::Bltu arm
nelt_redirect(p, target, alu_true) ==
    IF alu_true
    THEN IF p.bp_result.bht
         THEN <<None, Some(BhtUpdate(p.pc, TRUE))>>
         ELSE <<Some(target), Some(BhtUpdate(p.pc, TRUE))>>
    ELSE IF p.bp_result.bht
         THEN <<Some(Add32(p.pc, 4)), Some(BhtUpdate(p.pc, FALSE))>>
         ELSE <<None, Some(BhtUpdate(p.pc, FALSE))>>

mC37_get_redirect(p, alu_out) ==
    IF ~p.br_info.some THEN <<Some(Add32(p.pc, 4)), None>>
    ELSE
      LET br_info  == p.br_info.v
          target   == br_target(br_info)
          alu_true == alu_out # 0
      IN  CASE br_info.typ = "Jal"       -> jal_redirect(p, target)
            [] br_info.typ = "Jalr"      -> jalr_redirect(p, target)
            [] br_info.typ \in EqGeFamily -> eqge_redirect(p, target, alu_true)
            [] br_info.typ \in NeLtFamily -> nelt_redirect(p, target, alu_true)

\* get_redirect evaluates an addition that overflows u32: base + offset for
\* every payload with branch information, p.pc + 4 in the two arms that
\* redirect a branch predicted taken and resolved not-taken
get_redirect_overflows(p, alu_out) ==
    /\ p.br_info.some
    /\ \/ Add32Overflows(p.br_info.v.base, p.br_info.v.offset)
       \/ /\ p.br_info.v.typ \in EqGeFamily
          /\ alu_out # 0
          /\ p.bp_result.bht
          /\ Add32Overflows(p.pc, 4)
       \/ /\ p.br_info.v.typ \in NeLtFamily
          /\ alu_out = 0
          /\ p.bp_result.bht
          /\ Add32Overflows(p.pc, 4)

\* get_redirect: <<redirect, bp_update>> of the payload p with ALU output alu_out
get_redirect(p, alu_out) ==
    IF ~p.br_info.some THEN <<None, None>>
    ELSE
      LET br_info  == p.br_info.v
          target   == br_target(br_info)
          alu_true == alu_out # 0
      IN  CASE br_info.typ = "Jal"       -> jal_redirect(p, target)
            [] br_info.typ = "Jalr"      -> jalr_redirect(p, target)
            [] br_info.typ \in EqGeFamily -> eqge_redirect(p, target, alu_true)
            [] br_info.typ \in NeLtFamily -> nelt_redirect(p, target, alu_true)

mC34_gen_resolver(p, memr) ==
    LET stall == IF p.some /\ p.v.ip.wb_info.some
                      /\ p.v.ip.wb_info.v.wb_sel = "Mem"
                 THEN Some(p.v.ip.wb_info.v.addr)
                 ELSE None
    IN  IF ~p.some THEN ExeR_new(memr, None, stall, None, None)
        ELSE
          LET ip      == p.v.ip
              alu_out == p.v.alu_out
              bypass  == IF ip.wb_info.some /\ ip.wb_info.v.wb_sel = "Alu"
                         THEN Some([addr |-> ip.wb_info.v.addr, data |-> alu_out])
                         ELSE None
              rd      == get_redirect(ip, alu_out)
          IN  ExeR_new(memr, bypass, stall, rd[1], rd[2])

mC35_gen_resolver(p, memr) ==
    LET stall == IF p.some /\ p.v.ip.wb_info.some
                      /\ p.v.ip.wb_info.v.wb_sel \in {"Mem", "Csr"}
                 THEN Some(p.v.ip.wb_info.v.addr)
                 ELSE None
    IN  IF ~p.some THEN ExeR_new(memr, None, stall, None, None)
        ELSE
          LET ip      == p.v.ip
              alu_out == p.v.alu_out
              bypass  == IF ip.wb_info.some
                         THEN Some([addr |-> ip.wb_info.v.addr, data |-> alu_out])
                         ELSE None
              rd      == get_redirect(ip, alu_out)
          IN  ExeR_new(memr, bypass, stall, rd[1], rd[2])

mC36_gen_resolver(p, memr) ==
    LET stall == IF p.some /\ p.v.ip.wb_info.some
                      /\ p.v.ip.wb_info.v.wb_sel \in {"Mem", "Csr"}
                 THEN Some(p.v.ip.wb_info.v.addr)
                 ELSE None
    IN  IF ~p.some \/ memr.redirect.some THEN ExeR_new(memr, None, stall, None, None)
        ELSE
          LET ip      == p.v.ip
              alu_out == p.v.alu_out
              bypass  == IF ip.wb_info.some /\ ip.wb_info.v.wb_sel = "Alu"
                         THEN Some([addr |-> ip.wb_info.v.addr, data |-> alu_out])
                         ELSE None
              rd      == get_redirect(ip, alu_out)
          IN  ExeR_new(memr, bypass, stall, rd[1], rd[2])

\* gen_resolver: er = <<HOption<(DecEP, alu_out)>, MemR>>
gen_resolver(p, memr) ==
    LET stall == IF p.some /\ p.v.ip.wb_info.some
                      /\ p.v.ip.wb_info.v.wb_sel \in {"Mem", "Csr"}
                 THEN Some(p.v.ip.wb_info.v.addr)
                 ELSE None
    IN  IF ~p.some THEN ExeR_new(memr, None, stall, None, None)
        ELSE
          LET ip      == p.v.ip
              alu_out == p.v.alu_out
              bypass  == IF ip.wb_info.some /\ ip.wb_info.v.wb_sel = "Alu"
                         THEN Some([addr |-> ip.wb_info.v.addr, data |-> alu_out])
                         ELSE None
              rd      == get_redirect(ip, alu_out)
          IN  ExeR_new(memr, bypass, stall, rd[1], rd[2])

mC31_inner_exe_resolver(alu_r, mext_r) == alu_r

\* inner_exe, the closure given to map_resolver_inner: of the resolvers of the
\* two functional-unit paths, each <<HOption<(DecEP, alu_out)>, MemR>>, the
\* ALU path's is sent upstream when it holds a result, else the other path's
inner_exe_resolver(alu_r, mext_r) == IF alu_r[1].some THEN alu_r ELSE mext_r

\* gen_payload: the payload from execute to memory stage
gen_payload(ip, alu_out, memr) ==
    IF memr.redirect.some THEN None
    ELSE Some([alu_out |-> alu_out, wb_info |-> ip.wb_info, pc |-> ip.pc])

(***************************************************************************)
(* Processing element (gemmini/execute/systolic_array/pe.rs).  Values of   *)
(* the signed types S<N> are integers.                                     *)
(***************************************************************************)

\* Widths of the activation/weight type and of the output type.
INPUT_BITS == 8

OUTPUT_BITS == 20

\* the value of the low bits of v read as a signed number of that width
SignedWrap(v, bits) ==
    LET r == v % (2 ^ bits)
    IN  IF r >= 2 ^ (bits - 1) THEN r - 2 ^ bits ELSE r

\* S::resize to a narrower type keeps the low bits
resize(v, bits) == SignedWrap(v, bits)

\* S::sext to a wider type keeps the value
sext(v) == v

\* mac: a * b + c, as a value of the output type
mac(a, b, c) == SignedWrap(a * b + c, OUTPUT_BITS)

\* rounding_shift: val / 2^shamt, rounded to the nearest, ties to even
rounding_shift(val, shamt) ==
    IF shamt = 0 THEN val
    ELSE LET q    == val \div (2 ^ shamt)
             r    == val % (2 ^ shamt)
             half == 2 ^ (shamt - 1)
         IN  IF r > half \/ (r = half /\ q % 2 = 1) THEN q + 1 ELSE q

\* clip_with_saturation::<ACC_BITS, OUTPUT_BITS>
clip_with_saturation(v) ==
    LET hi == 2 ^ (OUTPUT_BITS - 1) - 1
        lo == 0 - 2 ^ (OUTPUT_BITS - 1)
    IN  IF v > hi THEN hi ELSE IF v < lo THEN lo ELSE v

\* shift_and_clip
shift_and_clip(val, shamt) == clip_with_saturation(rounding_shift(val, shamt))

\* PeS::new
PeS_new(reg1, reg2, propagate) == [reg1 |-> reg1, reg2 |-> reg2, propagate |-> propagate]

mC40_PeS_new_os(preload, partial_sum, propagate) ==
    IF propagate = "Reg1"
    THEN PeS_new(sext(partial_sum), sext(preload), propagate)
    ELSE PeS_new(sext(preload), sext(partial_sum), propagate)

\* PeS::new_os
PeS_new_os(preload, partial_sum, propagate) ==
    IF propagate = "Reg1"
    THEN PeS_new(sext(preload), sext(partial_sum), propagate)
    ELSE PeS_new(sext(partial_sum), sext(preload), propagate)

\* PeS::new_ws
PeS_new_ws(preload, weight, propagate) ==
    IF propagate = "Reg1"
    THEN PeS_new(sext(preload), sext(weight), propagate)
    ELSE PeS_new(sext(weight), sext(preload), propagate)

\* the state fsm_map starts with: PeS::new(default, default, Propagate::default())
PeS_init == PeS_new(0, 0, "Reg1")

\* pe, the closure given to fsm_map: the data sent down (out), the next state
\* (next), and the closure's locals shamt (OS dataflow) and mac_result
pe_fsm(pe_input, pe_s) ==
    LET in_propagate == pe_input.control.propagate
        in_dataflow  == pe_input.control.dataflow
        used         == IF in_propagate = "Reg1" THEN pe_s.reg2 ELSE pe_s.reg1
        kept         == IF in_propagate = "Reg1" THEN pe_s.reg1 ELSE pe_s.reg2
        mac_weight   == IF in_dataflow = "OS"
                        THEN resize(pe_input.b, INPUT_BITS)
                        ELSE resize(used, INPUT_BITS)
        mac_bias     == IF in_dataflow = "OS" THEN used ELSE sext(pe_input.b)
        mac_result   == mac(pe_input.a, mac_weight, mac_bias)
        shamt        == IF pe_s.propagate # in_propagate THEN pe_input.control.shift ELSE 0
        out          == IF in_dataflow = "OS"
                        THEN [b |-> pe_input.b, d |-> shift_and_clip(kept, shamt)]
                        ELSE [b |-> mac_result, d |-> resize(kept, OUTPUT_BITS)]
        next_pe_s    == IF in_dataflow = "OS"
                        THEN PeS_new_os(pe_input.d, mac_result, in_propagate)
                        ELSE PeS_new_ws(resize(pe_input.d, INPUT_BITS), mac_weight, in_propagate)
    IN  [out |-> out, next |-> next_pe_s, shamt |-> shamt, mac_result |-> mac_result]

(***************************************************************************)
(* Fetch stage (cpu/fetch.rs).                                             *)
(***************************************************************************)

\* The start address: the const generic of fetch.
START_ADDR == 0

\* the next-PC closure evaluates an addition that overflows u32
NextPc_overflows(p, decr) ==
    /\ ~decr.redirect.some
    /\ p.some
    /\ LET current_pc == p.v.imem_resp.addr
           bp_result  == p.v.bp_result
           pd         == bp_result.pre_decode
       IN  IF pd.is_jal THEN Add32Overflows(current_pc, pd.imm)
           ELSE IF pd.is_jalr THEN FALSE
           ELSE IF pd.is_branch /\ bp_result.bht THEN Add32Overflows(current_pc, pd.imm)
           ELSE Add32Overflows(current_pc, 4)

mC39_NextPc(p, decr) ==
    IF decr.redirect.some
    THEN Some([pc |-> decr.redirect.v, upd |-> None])
    ELSE IF p.some
    THEN LET current_pc == p.v.imem_resp.addr
             bp_result  == p.v.bp_result
             pd         == bp_result.pre_decode
             imm        == pd.imm
         IN  IF pd.is_jal
             THEN Some([pc |-> Add32(current_pc, imm), upd |-> decr.bp_update])
             ELSE IF pd.is_jalr
             THEN Some([pc |-> bp_result.btb, upd |-> decr.bp_update])
             ELSE IF pd.is_branch
             THEN IF bp_result.bht
                  THEN Some([pc |-> Add32(current_pc, imm), upd |-> decr.bp_update])
                  ELSE Some([pc |-> Add32(current_pc, 4), upd |-> decr.bp_update])
             ELSE Some([pc |-> Add32(current_pc, 4), upd |-> decr.bp_update])
    ELSE None

mC15_NextPc(p, decr) ==
    IF decr.redirect.some /\ ~p.some
    THEN Some([pc |-> decr.redirect.v, upd |-> decr.bp_update])
    ELSE IF p.some
    THEN LET current_pc == p.v.imem_resp.addr
             bp_result  == p.v.bp_result
             pd         == bp_result.pre_decode
             imm        == pd.imm
         IN  IF pd.is_jal
             THEN Some([pc |-> Add32(current_pc, imm), upd |-> decr.bp_update])
             ELSE IF pd.is_jalr
             THEN Some([pc |-> bp_result.btb, upd |-> decr.bp_update])
             ELSE IF pd.is_branch
             THEN IF bp_result.bht
                  THEN Some([pc |-> Add32(current_pc, imm), upd |-> decr.bp_update])
                  ELSE Some([pc |-> Add32(current_pc, 4), upd |-> decr.bp_update])
             ELSE Some([pc |-> Add32(current_pc, 4), upd |-> decr.bp_update])
    ELSE None

mC17_NextPc(p, decr) ==
    IF decr.redirect.some
    THEN Some([pc |-> decr.redirect.v, upd |-> decr.bp_update])
    ELSE IF p.some
    THEN LET current_pc == p.v.imem_resp.addr
             bp_result  == p.v.bp_result
             pd         == bp_result.pre_decode
             imm        == pd.imm
         IN  IF pd.is_jal
             THEN Some([pc |-> Add32(current_pc, imm), upd |-> decr.bp_update])
             ELSE IF pd.is_jalr
             THEN Some([pc |-> bp_result.btb, upd |-> decr.bp_update])
             ELSE IF pd.is_branch
             THEN IF bp_result.bht
                  THEN Some([pc |-> Add32(current_pc, 4), upd |-> decr.bp_update])
                  ELSE Some([pc |-> Add32(current_pc, 4), upd |-> decr.bp_update])
             ELSE Some([pc |-> Add32(current_pc, 4), upd |-> decr.bp_update])
    ELSE None

mC18_NextPc(p, decr) ==
    IF decr.redirect.some
    THEN Some([pc |-> decr.redirect.v, upd |-> decr.bp_update])
    ELSE IF p.some
    THEN LET current_pc == p.v.imem_resp.addr
             bp_result  == p.v.bp_result
             pd         == bp_result.pre_decode
             imm        == pd.imm
         IN  IF pd.is_jal
             THEN Some([pc |-> Add32(current_pc, imm), upd |-> decr.bp_update])
             ELSE IF pd.is_jalr
             THEN Some([pc |-> Add32(current_pc, 4), upd |-> decr.bp_update])
             ELSE IF pd.is_branch
             THEN IF bp_result.bht
                  THEN Some([pc |-> Add32(current_pc, imm), upd |-> decr.bp_update])
                  ELSE Some([pc |-> Add32(current_pc, 4), upd |-> decr.bp_update])
             ELSE Some([pc |-> Add32(current_pc, 4), upd |-> decr.bp_update])
    ELSE None

\* the next-PC calculation: the closure given to filter_map.  p is the fetched
\* payload of this cycle (HOption<FetEP>), decr the resolver from decode.
NextPc(p, decr) ==
    IF decr.redirect.some
    THEN Some([pc |-> decr.redirect.v, upd |-> decr.bp_update])
    ELSE IF p.some
    THEN LET current_pc == p.v.imem_resp.addr
             bp_result  == p.v.bp_result
             pd         == bp_result.pre_decode
             imm        == pd.imm
         IN  IF pd.is_jal
             THEN Some([pc |-> Add32(current_pc, imm), upd |-> decr.bp_update])
             ELSE IF pd.is_jalr
             THEN Some([pc |-> bp_result.btb, upd |-> decr.bp_update])
             ELSE IF pd.is_branch
             THEN IF bp_result.bht
                  THEN Some([pc |-> Add32(current_pc, imm), upd |-> decr.bp_update])
                  ELSE Some([pc |-> Add32(current_pc, 4), upd |-> decr.bp_update])
             ELSE Some([pc |-> Add32(current_pc, 4), upd |-> decr.bp_update])
    ELSE None

mC19_PcRegInit == Some([pc |-> START_ADDR + 4, upd |-> None])

\* the initial value of the next-PC register: reg_fwd_with_init(true, (START_ADDR, None))
PcRegInit == Some([pc |-> START_ADDR, upd |-> None])

\* the default BpResult attached before the predictor step
default_bp_res ==
    [ pre_decode |-> [is_jal |-> FALSE, is_jalr |-> FALSE, is_branch |-> FALSE, imm |-> 0],
      bht |-> FALSE,
      btb |-> 0 ]

mC7_FetchFsm(ip, s) ==
    LET s1 == IF ip.bp_update.some THEN Bp_update(s, ip.bp_update.v) ELSE s
    IN  [ ep |-> [ imem_resp |-> ip.imem_resp,
                   bp_result |-> Bp_predict(s1, ip.imem_resp),
                   bp_update |-> None ],
          s1 |-> s1 ]

mC38_FetchFsm(ip, s) ==
    LET bp_result == Bp_predict(s, ip.imem_resp)
        ep == [ imem_resp |-> ip.imem_resp,
                bp_result |-> bp_result,
                bp_update |-> ip.bp_update ]
        s1 == IF ip.bp_update.some THEN Bp_update(s, ip.bp_update.v) ELSE s
    IN  [ep |-> ep, s1 |-> s1]

mC30_FetchFsm(ip, s) ==
    LET bp_result == Bp_predict(s, ip.imem_resp)
        ep == [ imem_resp |-> ip.imem_resp,
                bp_result |-> bp_result,
                bp_update |-> None ]
        s1 == IF ip.bp_update.some THEN Bp_update(s, ip.bp_update.v)
              ELSE IF bp_result.pre_decode.is_branch
              THEN [s EXCEPT !.bht = Bht_update(s.bht, ip.imem_resp.addr, bp_result.bht)]
              ELSE s
    IN  [ep |-> ep, s1 |-> s1]

mC29_FetchFsm(ip, s) ==
    LET bp_result == Bp_predict(s, ip.imem_resp)
        ep == [ imem_resp |-> ip.imem_resp,
                bp_result |-> bp_result,
                bp_update |-> None ]
        s1 == IF ip.bp_update.some THEN Bp_update(s, ip.bp_update.v) ELSE Bp_default
    IN  [ep |-> ep, s1 |-> s1]

\* the closure given to fsm_map: the egress payload and the next predictor
\* state for the ingress payload ip in the predictor state s
FetchFsm(ip, s) ==
    LET bp_result == Bp_predict(s, ip.imem_resp)
        ep == [ imem_resp |-> ip.imem_resp,
                bp_result |-> bp_result,
                bp_update |-> None ]
        s1 == IF ip.bp_update.some THEN Bp_update(s, ip.bp_update.v) ELSE s
    IN  [ep |-> ep, s1 |-> s1]

mC33_FetchReady(er_ready, decr) == TRUE

mC13_FetchReady(er_ready, decr) == er_ready

\* the closure given to map_resolver_drop_with_p: the ready signal sent upstream
FetchReady(er_ready, decr) == er_ready \/ decr.redirect.some

mC12_FetchFilter(resp, decr) == Some(resp)

\* the closure given to filter_map_drop_with_r_inner
FetchFilter(resp, decr) == IF ~decr.redirect.some THEN Some(resp) ELSE None

(***************************************************************************)
(* The pipeline around fetch and execute, one clock cycle per step.  The   *)
(* instruction memory answers a request in the cycle it accepts it; the    *)
(* decode and execute stages hold one instruction each in a pipelined      *)
(* register (reg_fwd(true)); the memory stage is seen through its resolver *)
(* and its ready signal.                                                   *)
(***************************************************************************)

\* How many branches the history variables follow, and how many applied
\* updates they record.
MaxTrack == 2

MaxLog == 2

\* The program in the instruction memory.
IMEM(addr) ==
    CASE addr = 0  -> [kind |-> "Beq",  imm |-> 8]
      [] addr = 4  -> [kind |-> "Load", imm |-> 0]
      [] addr = 8  -> [kind |-> "Bne",  imm |-> 8]
      [] addr = 12 -> [kind |-> "Jalr", imm |-> 0]
      [] addr = 16 -> [kind |-> "Jal",  imm |-> 0]
      [] OTHER     -> [kind |-> "Alu",  imm |-> 0]

\* The values the base register of the indirect jump takes.
JalrBase(opv) == IF opv = 0 THEN 0 ELSE 16

\* The address the memory stage redirects to when it redirects.
MemRedirects == {None, Some(4)}

\* decode: the payload sent to execute for the fetched payload fet_ep; opv
\* stands for the register operands (the comparison result of a branch, the
\* base register of an indirect jump).
decode(fet_ep, opv) ==
    LET pc   == fet_ep.imem_resp.addr
        inst == fet_ep.imem_resp.data
    IN  [ ip |->
            [ br_info |->
                CASE inst.kind = "Jalr" ->
                       Some([typ |-> "Jalr", base |-> JalrBase(opv), offset |-> inst.imm])
                  [] inst.kind \in BrTypes \ {"Jalr"} ->
                       Some([typ |-> inst.kind, base |-> pc, offset |-> inst.imm])
                  [] OTHER -> None,
              bp_result |-> fet_ep.bp_result,
              pc        |-> pc,
              wb_info   |->
                CASE inst.kind = "Load" -> Some([addr |-> 1, wb_sel |-> "Mem"])
                  [] inst.kind \in {"Alu", "Jal", "Jalr"} -> Some([addr |-> 1, wb_sel |-> "Alu"])
                  [] OTHER -> None ],
          alu_out |-> IF inst.kind \in (EqGeFamily \cup NeLtFamily) THEN opv ELSE 0 ]

\* The memory stage's resolver in this cycle.
MemRNow ==
    [ bypass_from_mem |-> None,
      bypass_from_wb  |-> None,
      redirect        |-> inp.mem_redirect,
      rf              |-> "rf0" ]

\* exe: the resolver sent to decode
ExeResolver == gen_resolver(exereg, MemRNow)

\* exe: the payload offered to the memory stage
ExePayload ==
    IF exereg.some THEN gen_payload(exereg.v.ip, exereg.v.alu_out, MemRNow) ELSE None

\* the instruction in execute goes to the memory stage in this cycle
ExeRetires == exereg.some /\ ExePayload.some /\ inp.mem_ready

\* the instruction in execute leaves its register: it retires or is dropped
ExeLeaves == exereg.some /\ (inp.mem_ready \/ ~ExePayload.some)

\* reg_fwd(true) of execute: ready when empty or when its content leaves
ExeInReady == ~exereg.some \/ ExeLeaves

\* DecR: decode hands the redirect and the update event of ExeR on to fetch
DecRNow == [redirect |-> ExeResolver.redirect, bp_update |-> ExeResolver.bp_update]

\* decode drops its instruction when the resolver carries a redirect
DecKill == decreg.some /\ DecRNow.redirect.some

\* decode: the payload offered to execute
DecPayload ==
    IF decreg.some /\ ~DecKill /\ ~inp.dec_stall
    THEN Some(decode(decreg.v, inp.opv))
    ELSE None

DecTransfer == DecPayload.some /\ ExeInReady

DecLeaves == DecKill \/ DecTransfer

\* reg_fwd(true) of decode
DecInReady == ~decreg.some \/ DecLeaves

\* fetch: the memory response of this cycle with the update event attached to
\* its request, as it enters fsm_map
FetIp ==
    IF pcreg.some /\ inp.imem_ok
    THEN Some([ imem_resp |-> [addr |-> pcreg.v.pc, data |-> IMEM(pcreg.v.pc)],
                bp_result |-> default_bp_res,
                bp_update |-> pcreg.v.upd ])
    ELSE None

\* fetch: the payload after fsm_map, which is also the p of the next-PC logic
FetP == IF FetIp.some THEN Some(FetchFsm(FetIp.v, bp).ep) ELSE None

\* fetch: the ready signal sent upstream
FetReadyNow == FetchReady(DecInReady, DecRNow)

\* fetch: the payload offered to decode
FetOut == IF FetP.some THEN FetchFilter(FetP.v, DecRNow) ELSE None

\* fetch: the memory response is consumed, so fsm_map takes its next state
\* and the memory port accepts the request of the next-PC register
FetTransfer == FetP.some /\ FetReadyNow

\* fetch: the output of the next-PC logic
NextPcNow == NextPc(FetP, DecRNow)

\* reg_fwd_with_init(true, ..): ready when empty or when its content leaves
PcRegReady == ~pcreg.some \/ FetTransfer

\* source_drop: the next-PC register takes the new value only when ready
PcLatch == NextPcNow.some /\ PcRegReady

\* The inputs a cycle can see with the given stage registers: the memory
\* stage stalls or redirects only while it holds an instruction and a
\* redirecting instruction completes; decode stalls only on a load or CSR
\* instruction in execute; inputs nothing reads take one value.
CycleInputs(pr, dr, er, mv) ==
    { i \in [ imem_ok : BOOLEAN, mem_ready : BOOLEAN, mem_redirect : MemRedirects,
              dec_stall : BOOLEAN, opv : {0, 1} ] :
        /\ ~mv => (i.mem_ready /\ ~i.mem_redirect.some)
        /\ i.mem_redirect.some => i.mem_ready
        /\ ~pr.some => i.imem_ok
        /\ i.dec_stall =>
              /\ dr.some /\ er.some
              /\ er.v.ip.wb_info.some
              /\ er.v.ip.wb_info.v.wb_sel \in {"Mem", "Csr"}
        /\ i.opv = 1 =>
              /\ dr.some
              /\ dr.v.imem_resp.data.kind \in BrTypes \ {"Jal"} }

\* the update event of the branch in execute enters the next-PC register
LatchUpd == PcLatch /\ DecRNow.bp_update.some

\* the table entry an update event writes
UpdEntry(update) ==
    IF update.tag = "Bht"
    THEN [tag |-> "Bht", index |-> usize_mod(update.pc, BHT_ENTRIES)]
    ELSE [tag |-> "Btb", index |-> usize_mod(update.pc, BTB_ENTRIES)]

\* the update event of a followed branch is applied by fsm_map in this cycle
LogsUpd ==
    /\ FetTransfer
    /\ FetIp.v.bp_update.some
    /\ g_src # 0
    /\ Len(g_log) < MaxLog

\* the resolver carries a redirect and the request waiting in the next-PC
\* register, for another address, stays there
StaleRequestStays ==
    /\ DecRNow.redirect.some
    /\ ~PcLatch
    /\ pcreg.some
    /\ pcreg.v.pc # DecRNow.redirect.v

\* the number given to an instruction entering execute (0: not followed)
NewId == IF DecPayload.v.ip.br_info.some /\ g_next <= MaxTrack THEN g_next ELSE 0

\* the variables of the single-evaluation specifications, at rest
ExeIdle == ex_in = None /\ ex_out = [done |-> FALSE]

FetIdle == fe_in = None /\ fe_out = [done |-> FALSE]

SatIdle == sat = [start |-> "WeaklyNotTaken", cur |-> "WeaklyNotTaken",
                  prev |-> "WeaklyNotTaken", pred |-> FALSE, calls |-> <<>>]

\* the program counters the tables are read at: 3 and 11 share an entry
TbPcs == {3, 4, 11}

\* the reads of the two tables at every program counter of TbPcs
TabReads(bht, btb) ==
    [ bht |-> [pc \in TbPcs |-> Bht_predict(bht, pc)],
      btb |-> [pc \in TbPcs |-> Btb_predict(btb, pc)] ]

\* the tables before any call, starting from bht0 and btb0
TabStart(bht0, btb0) ==
    [ bht0  |-> bht0,
      btb0  |-> btb0,
      bht   |-> bht0,
      btb   |-> btb0,
      rd    |-> TabReads(bht0, btb0),
      pbht  |-> bht0,
      pbtb  |-> btb0,
      prd   |-> TabReads(bht0, btb0),
      calls |-> <<>> ]

TabIdle == tab = TabStart(Bht_default, Btb_default)

\* a processing element before its first input
PeIdle == pe = [s |-> PeS_init, n |-> 0, prev |-> PeS_init, in |-> None, r |-> None]

CpuReset ==
    /\ pcreg = PcRegInit
    /\ bp = Bp_default
    /\ decreg = None
    /\ exereg = None
    /\ memv = FALSE
    /\ g_src = 0
    /\ g_exe = [id |-> 0, latched |-> FALSE]
    /\ g_next = 1
    /\ g_log = <<>>
    /\ g_lost = FALSE
    /\ g_ent = <<>>
    /\ g_started = FALSE
    /\ g_stale = FALSE

Init ==
    /\ CpuReset
    /\ inp \in CycleInputs(pcreg, decreg, exereg, memv)
    /\ ExeIdle
    /\ FetIdle
    /\ SatIdle
    /\ TabIdle
    /\ PeIdle

\* a variant of the update path: an update event arriving while another one
\* is pending in the next-PC register is applied at once, ahead of it
UpdBypass == FetTransfer /\ DecRNow.bp_update.some /\ pcreg.v.upd.some

mC11_Cycle ==
    /\ bp' = IF UpdBypass THEN Bp_update(bp, DecRNow.bp_update.v)
             ELSE IF FetTransfer THEN FetchFsm(FetIp.v, bp).s1
             ELSE bp
    /\ pcreg' = IF PcLatch /\ UpdBypass
                THEN Some([pc |-> NextPcNow.v.pc, upd |-> pcreg.v.upd])
                ELSE IF PcLatch THEN NextPcNow
                ELSE IF FetTransfer THEN None
                ELSE pcreg
    /\ decreg' = IF FetOut.some /\ DecInReady THEN FetOut
                 ELSE IF DecLeaves THEN None
                 ELSE decreg
    /\ exereg' = IF DecTransfer THEN DecPayload
                 ELSE IF ExeLeaves THEN None
                 ELSE exereg
    /\ memv' = IF ExeRetires THEN TRUE
               ELSE IF inp.mem_ready THEN FALSE
               ELSE memv
    /\ g_src' = IF PcLatch /\ UpdBypass THEN g_src
                ELSE IF PcLatch THEN (IF DecRNow.bp_update.some THEN g_exe.id ELSE 0)
                ELSE IF FetTransfer THEN 0
                ELSE g_src
    /\ g_log' = IF UpdBypass /\ g_exe.id # 0 /\ Len(g_log) < MaxLog
                THEN Append(g_log, g_exe.id)
                ELSE IF ~UpdBypass /\ LogsUpd THEN Append(g_log, g_src)
                ELSE g_log
    /\ g_ent' = IF UpdBypass /\ g_exe.id # 0 /\ Len(g_log) < MaxLog
                THEN Append(g_ent, UpdEntry(DecRNow.bp_update.v))
                ELSE IF ~UpdBypass /\ LogsUpd THEN Append(g_ent, UpdEntry(FetIp.v.bp_update.v))
                ELSE g_ent
    /\ g_started' = (g_started \/ FetTransfer)
    /\ g_stale' = IF PcLatch \/ FetTransfer THEN FALSE ELSE (g_stale \/ StaleRequestStays)
    /\ g_lost' = (g_lost \/ (/\ ExeRetires
                             /\ DecRNow.bp_update.some
                             /\ ~g_exe.latched
                             /\ ~LatchUpd))
    /\ g_exe' = IF DecTransfer THEN [id |-> NewId, latched |-> FALSE]
                ELSE IF ExeLeaves THEN [id |-> 0, latched |-> FALSE]
                ELSE [g_exe EXCEPT !.latched = @ \/ LatchUpd]
    /\ g_next' = IF DecTransfer /\ NewId # 0 THEN g_next + 1 ELSE g_next
    /\ inp' \in CycleInputs(pcreg', decreg', exereg', memv')
    /\ UNCHANGED <<exeVars, fetVars, satVars, tabVars, peVars>>


\* One clock cycle of fetch, decode and execute.
Cycle ==
    /\ bp' = IF FetTransfer THEN FetchFsm(FetIp.v, bp).s1 ELSE bp
    /\ pcreg' = IF PcLatch THEN NextPcNow
                ELSE IF FetTransfer THEN None
                ELSE pcreg
    /\ decreg' = IF FetOut.some /\ DecInReady THEN FetOut
                 ELSE IF DecLeaves THEN None
                 ELSE decreg
    /\ exereg' = IF DecTransfer THEN DecPayload
                 ELSE IF ExeLeaves THEN None
                 ELSE exereg
    /\ memv' = IF ExeRetires THEN TRUE
               ELSE IF inp.mem_ready THEN FALSE
               ELSE memv
    /\ g_src' = IF PcLatch THEN (IF DecRNow.bp_update.some THEN g_exe.id ELSE 0)
                ELSE IF FetTransfer THEN 0
                ELSE g_src
    /\ g_log' = IF LogsUpd THEN Append(g_log, g_src) ELSE g_log
    /\ g_ent' = IF LogsUpd THEN Append(g_ent, UpdEntry(FetIp.v.bp_update.v)) ELSE g_ent
    /\ g_started' = (g_started \/ FetTransfer)
    /\ g_stale' = IF PcLatch \/ FetTransfer THEN FALSE ELSE (g_stale \/ StaleRequestStays)
    /\ g_lost' = (g_lost \/ (/\ ExeRetires
                             /\ DecRNow.bp_update.some
                             /\ ~g_exe.latched
                             /\ ~LatchUpd))
    /\ g_exe' = IF DecTransfer THEN [id |-> NewId, latched |-> FALSE]
                ELSE IF ExeLeaves THEN [id |-> 0, latched |-> FALSE]
                ELSE [g_exe EXCEPT !.latched = @ \/ LatchUpd]
    /\ g_next' = IF DecTransfer /\ NewId # 0 THEN g_next + 1 ELSE g_next
    /\ inp' \in CycleInputs(pcreg', decreg', exereg', memv')
    /\ UNCHANGED <<exeVars, fetVars, satVars, tabVars, peVars>>

Next == Cycle

Spec == Init /\ [][Next]_vars

(***************************************************************************)
(* One evaluation of the execute stage's combinational functions on an     *)
(* arbitrary input: SpecExe.                                               *)
(***************************************************************************)

ExPcs == {40, 100, -4}

ExBases == {100, 400, 2147483644}

ExOffsets == {100, -8}

ExBtbs == {44, 92, 200, 500}

ExAlus == {0, 1, -1}

ExWbInfos ==
    {None} \cup {Some([addr |-> 1, wb_sel |-> s]) : s \in {"Alu", "Mem", "Csr"}}

ExBrInfos ==
    {None} \cup
    {Some([typ |-> t, base |-> b, offset |-> o]) :
        t \in BrTypes, b \in ExBases, o \in ExOffsets}

\* DecEP: the fields the execute stage's resolver and payload read
ExDecEPs ==
    [ br_info   : ExBrInfos,
      bp_result : [bht : BOOLEAN, btb : ExBtbs],
      pc        : ExPcs,
      wb_info   : ExWbInfos ]

ExRegs == {None, Some([addr |-> 2, data |-> 5])}

\* MemR
ExMemRs ==
    [ bypass_from_mem : ExRegs,
      bypass_from_wb  : ExRegs,
      redirect        : {None, Some(8)},
      rf              : {"rf0", "rf1"} ]

\* results of the multiply/divide path
ExMexts ==
    {Some([ip |-> d, alu_out |-> a]) :
        d \in [ br_info   : {None, Some([typ |-> "Bne", base |-> 100, offset |-> 4])},
                bp_result : [bht : {FALSE}, btb : {44}],
                pc        : {40},
                wb_info   : ExWbInfos ],
        a \in {0, 1}}

\* the instruction in execute is on one of the two paths: the ALU path holds
\* a result, or the multiply/divide path does, or neither
ExInputs ==
    [ p    : {None} \cup {Some([ip |-> d, alu_out |-> a]) : d \in ExDecEPs, a \in ExAlus},
      mext : {None},
      memr : ExMemRs ]
    \cup
    [ p    : {None},
      mext : ExMexts,
      memr : ExMemRs ]

\* the pipeline at reset, with the inputs of a quiet cycle
CpuIdle ==
    /\ CpuReset
    /\ inp = [ imem_ok |-> TRUE, mem_ready |-> TRUE, mem_redirect |-> None,
               dec_stall |-> FALSE, opv |-> 0 ]

InitExe ==
    /\ ex_in \in ExInputs
    /\ ex_out = [done |-> FALSE]
    /\ CpuIdle
    /\ FetIdle
    /\ SatIdle
    /\ TabIdle
    /\ PeIdle

\* exe: the resolver sent to decode and the payload sent to the memory stage
\* in one cycle, with the (redirect, bp_update) pair get_redirect returned
ExeEval ==
    /\ ex_out = [done |-> FALSE]
    /\ ex_out' =
         [ done |-> TRUE,
           gr   |-> LET er == inner_exe_resolver(<<ex_in.p, ex_in.memr>>,
                                                 <<ex_in.mext, ex_in.memr>>)
                    IN  IF er[1].some
                        THEN get_redirect(er[1].v.ip, er[1].v.alu_out)
                        ELSE <<None, None>>,
           exer |-> LET er == inner_exe_resolver(<<ex_in.p, ex_in.memr>>,
                                                 <<ex_in.mext, ex_in.memr>>)
                    IN  gen_resolver(er[1], er[2]),
           ep   |-> LET er == inner_exe_resolver(<<ex_in.p, ex_in.memr>>,
                                                 <<ex_in.mext, ex_in.memr>>)
                    IN  IF er[1].some
                        THEN gen_payload(er[1].v.ip, er[1].v.alu_out, er[2])
                        ELSE None ]
    /\ UNCHANGED <<ex_in, cpuVars, fetVars, satVars, tabVars, peVars>>

\* exe in a build with overflow checks, on a payload whose get_redirect
\* overflows: the evaluation panics and the stage produces nothing
ExePanic ==
    /\ ex_out = [done |-> FALSE]
    /\ LET er == inner_exe_resolver(<<ex_in.p, ex_in.memr>>, <<ex_in.mext, ex_in.memr>>)
       IN  er[1].some /\ get_redirect_overflows(er[1].v.ip, er[1].v.alu_out)
    /\ ex_out' = [done |-> FALSE, panic |-> TRUE]
    /\ UNCHANGED <<ex_in, cpuVars, fetVars, satVars, tabVars, peVars>>

NextExe == ExeEval \/ ExePanic

SpecExe == InitExe /\ [][NextExe]_vars

(***************************************************************************)
(* One evaluation of the fetch stage's closures on an arbitrary memory     *)
(* response, predictor state and resolver: SpecFet.                        *)
(***************************************************************************)

FeAddrs == {40, 100, 2147483644, -4}

FeInsts ==
    {[kind |-> k, imm |-> i] : k \in {"Jal", "Jalr", "Beq", "Bne", "Alu"},
                               i \in {8, -8}}

FeUpdates == {None, Some(BhtUpdate(40, TRUE)), Some(BtbUpdate(100, 200))}

\* predictor states: one BHT entry and one BTB entry away from the default
FeBps ==
    {[ bht |-> [Bht_default EXCEPT ![i] = c], btb |-> [Btb_default EXCEPT ![i] = e] ] :
        i \in {0, 4}, c \in SatCounters, e \in {None, Some(200)}}

\* DecR
FeDecRs == [redirect : {None, Some(500)}, bp_update : {None, Some(BhtUpdate(100, FALSE))}]

FeInputs ==
    [ valid     : BOOLEAN,
      imem_resp : [addr : FeAddrs, data : FeInsts],
      bp_update : FeUpdates,
      s         : FeBps,
      decr      : FeDecRs,
      er_ready  : BOOLEAN ]

InitFet ==
    /\ fe_in \in FeInputs
    /\ fe_out = [done |-> FALSE]
    /\ CpuIdle
    /\ ExeIdle
    /\ SatIdle
    /\ TabIdle
    /\ PeIdle

\* fetch: the predictor step on the memory response (when there is one), the
\* next-PC calculation, the ready signal sent upstream (a valid payload that
\* meets it is consumed) and the payload offered to decode, all in one cycle
FetEval ==
    /\ fe_out = [done |-> FALSE]
    /\ LET ip  == [ imem_resp |-> fe_in.imem_resp,
                    bp_result |-> default_bp_res,
                    bp_update |-> fe_in.bp_update ]
           fsm == FetchFsm(ip, fe_in.s)
           p   == IF fe_in.valid THEN Some(fsm.ep) ELSE None
       IN  fe_out' =
             [ done  |-> TRUE,
               p     |-> p,
               s1    |-> IF fe_in.valid THEN fsm.s1 ELSE fe_in.s,
               next  |-> NextPc(p, fe_in.decr),
               ready |-> FetchReady(fe_in.er_ready, fe_in.decr),
               consumed |-> p.some /\ FetchReady(fe_in.er_ready, fe_in.decr),
               out   |-> IF p.some THEN FetchFilter(p.v, fe_in.decr) ELSE None ]
    /\ UNCHANGED <<fe_in, cpuVars, exeVars, satVars, tabVars, peVars>>

\* fetch in a build with overflow checks, when the next-PC closure
\* overflows: the evaluation panics and the stage produces nothing
FetPanic ==
    /\ fe_out = [done |-> FALSE]
    /\ LET ip  == [ imem_resp |-> fe_in.imem_resp,
                    bp_result |-> default_bp_res,
                    bp_update |-> fe_in.bp_update ]
           fsm == FetchFsm(ip, fe_in.s)
           p   == IF fe_in.valid THEN Some(fsm.ep) ELSE None
       IN  NextPc_overflows(p, fe_in.decr)
    /\ fe_out' = [done |-> FALSE, panic |-> TRUE]
    /\ UNCHANGED <<fe_in, cpuVars, exeVars, satVars, tabVars, peVars>>

NextFet == FetEval \/ FetPanic

SpecFet == InitFet /\ [][NextFet]_vars

(***************************************************************************)
(* A SatCounter under a sequence of calls: SpecSat.                        *)
(***************************************************************************)

\* How many increment/decrement calls a sequence has.
MaxCalls == 4

InitSat ==
    /\ \E c \in SatCounters :
          sat = [ start |-> c, cur |-> c, prev |-> c, pred |-> sat_predict(c),
                  calls |-> <<>> ]
    /\ CpuIdle
    /\ ExeIdle
    /\ FetIdle
    /\ TabIdle
    /\ PeIdle

\* counter.increment(), then predict() on the result
SatInc ==
    /\ Len(sat.calls) < MaxCalls
    /\ sat' = [ start |-> sat.start,
                cur   |-> increment(sat.cur),
                prev  |-> sat.cur,
                pred  |-> sat_predict(increment(sat.cur)),
                calls |-> Append(sat.calls, "inc") ]
    /\ UNCHANGED <<cpuVars, exeVars, fetVars, tabVars, peVars>>

\* counter.decrement(), then predict() on the result
SatDec ==
    /\ Len(sat.calls) < MaxCalls
    /\ sat' = [ start |-> sat.start,
                cur   |-> decrement(sat.cur),
                prev  |-> sat.cur,
                pred  |-> sat_predict(decrement(sat.cur)),
                calls |-> Append(sat.calls, "dec") ]
    /\ UNCHANGED <<cpuVars, exeVars, fetVars, tabVars, peVars>>

NextSat == SatInc \/ SatDec

SpecSat == InitSat /\ [][NextSat]_vars

(***************************************************************************)
(* A Bht and a Btb under a sequence of update calls, read after each call  *)
(* at every program counter of TbPcs: SpecTab.                             *)
(***************************************************************************)

\* How many update calls a sequence has.
MaxUpd == 3

TbTargets == {200, 500}

\* the tables a sequence starts from: the default ones, or with entry 3 set
TbBhts == {[Bht_default EXCEPT ![3] = c] : c \in SatCounters}

TbBtbs == {[Btb_default EXCEPT ![3] = e] : e \in {None} \cup {Some(t) : t \in TbTargets}}

InitTab ==
    /\ \E bht0 \in TbBhts, btb0 \in TbBtbs : tab = TabStart(bht0, btb0)
    /\ PeIdle
    /\ CpuIdle
    /\ ExeIdle
    /\ FetIdle
    /\ SatIdle

\* bht.update(pc, taken), then the reads
TabBhtUpdate ==
    /\ Len(tab.calls) < MaxUpd
    /\ \E pc \in TbPcs, taken \in BOOLEAN :
          LET bht1 == Bht_update(tab.bht, pc, taken)
          IN  tab' = [ tab EXCEPT !.bht   = bht1,
                                 !.rd    = TabReads(bht1, tab.btb),
                                 !.pbht  = tab.bht,
                                 !.pbtb  = tab.btb,
                                 !.prd   = tab.rd,
                                 !.calls = Append(@, BhtUpdate(pc, taken)) ]
    /\ UNCHANGED <<cpuVars, exeVars, fetVars, satVars, peVars>>

\* btb.update(pc, target), then the reads
TabBtbUpdate ==
    /\ Len(tab.calls) < MaxUpd
    /\ \E pc \in TbPcs, target \in TbTargets :
          LET btb1 == Btb_update(tab.btb, pc, target)
          IN  tab' = [ tab EXCEPT !.btb   = btb1,
                                 !.rd    = TabReads(tab.bht, btb1),
                                 !.pbht  = tab.bht,
                                 !.pbtb  = tab.btb,
                                 !.prd   = tab.rd,
                                 !.calls = Append(@, BtbUpdate(pc, target)) ]
    /\ UNCHANGED <<cpuVars, exeVars, fetVars, satVars, peVars>>

NextTab == TabBhtUpdate \/ TabBtbUpdate

SpecTab == InitTab /\ [][NextTab]_vars

(***************************************************************************)
(* The processing element under a sequence of inputs.                      *)
(***************************************************************************)

MaxPe == 2

\* inputs: activation a (in_left), weight b and preload d (in_top_data), and
\* the control signals (in_top_control)
PeInputs ==
    [ a : {2, 0 - 2},
      b : {0, 2},
      d : {0, 4},
      control : [ dataflow : {"OS", "WS"}, propagate : {"Reg1", "Reg2"}, shift : {0, 2} ] ]

InitPe == PeIdle /\ CpuIdle /\ ExeIdle /\ FetIdle /\ SatIdle /\ TabIdle

\* one valid input passes through fsm_map
PeStep ==
    /\ pe.n < MaxPe
    /\ \E pe_input \in PeInputs :
         LET r == pe_fsm(pe_input, pe.s)
         IN  pe' = [s |-> r.next, n |-> pe.n + 1, prev |-> pe.s,
                    in |-> Some(pe_input), r |-> Some(r)]
    /\ UNCHANGED <<cpuVars, exeVars, fetVars, satVars, tabVars>>

NextPe == PeStep

SpecPe == InitPe /\ [][NextPe]_vars

(***************************************************************************)
(* Claims about branch resolution (checked under SpecExe).                 *)
(***************************************************************************)

\* the evaluated payload holds a branch-information record
ExHasBr == ex_out.done /\ ex_in.p.some /\ ex_in.p.v.ip.br_info.some

ExIp == ex_in.p.v.ip

ExTyp == ex_in.p.v.ip.br_info.v.typ

ExIsCond == ExHasBr /\ ExTyp \in (EqGeFamily \cup NeLtFamily)

\* the resolved direction: zero ALU output for Beq/Bge/Bgeu, nonzero for Bne/Blt/Bltu
ExResolvedTaken ==
    IF ExTyp \in EqGeFamily THEN ex_in.p.v.alu_out = 0 ELSE ex_in.p.v.alu_out # 0

ExTarget == Sum32(ExIp.br_info.v.base, ExIp.br_info.v.offset)

\* C1: for a conditional branch, get_redirect returns a redirect if and only
\* if the resolved direction differs from the predicted direction bp_result.bht.
C1_RedirectIffMispredicted ==
    ExIsCond => (ex_out.gr[1].some <=> (ExResolvedTaken # ExIp.bp_result.bht))

C1_Witness ==
    /\ ExIsCond
    /\ ExTyp = "Bge"
    /\ ~ExResolvedTaken
    /\ ExIp.bp_result.bht
    /\ ex_out.gr[1].some

\* C2: a mispredicted conditional branch redirects to base + offset when it
\* resolved taken and to pc + 4 when it resolved not-taken; the branch at
\* pc = 100 predicted not-taken and resolving taken to 200 gives Some(200)
\* and the update Bht{pc: 100, taken: true}.
C2_RedirectAddress ==
    (ExIsCond /\ ExResolvedTaken # ExIp.bp_result.bht) =>
        /\ ex_out.gr[1] = IF ExResolvedTaken
                          THEN Some(ExTarget)
                          ELSE Some(Sum32(ExIp.pc, 4))
        /\ (ExIp.pc = 100 /\ ExTarget = 200 /\ ExResolvedTaken) =>
              ex_out.gr = <<Some(200), Some(BhtUpdate(100, TRUE))>>

C2_Witness ==
    /\ ExIsCond
    /\ ExIp.pc = 100
    /\ ExTarget = 200
    /\ ExTyp = "Bne"
    /\ ExResolvedTaken
    /\ ~ExIp.bp_result.bht
    /\ ex_out.gr = <<Some(200), Some(BhtUpdate(100, TRUE))>>

\* C3: every resolved conditional branch emits exactly one update event, a
\* Bht update carrying the branch's pc and the resolved direction, whether or
\* not the prediction was right.
C3_BhtUpdateAlways ==
    ExIsCond => ex_out.gr[2] = Some(BhtUpdate(ExIp.pc, ExResolvedTaken))

C3_Witness ==
    /\ ExIsCond
    /\ ExTyp = "Bgeu"
    /\ ~ExResolvedTaken
    /\ ~ExIp.bp_result.bht
    /\ ~ex_out.gr[1].some
    /\ ex_out.gr[2] = Some(BhtUpdate(ExIp.pc, FALSE))

\* C4: an indirect jump with actual target T = base + offset gives no
\* redirect and no update when bp_result.btb = T, and otherwise the redirect
\* Some(T) with the update Btb{pc, target: T}.
C4_JalrResolution ==
    (ExHasBr /\ ExTyp = "Jalr") =>
        ex_out.gr = IF ExIp.bp_result.btb = ExTarget
                    THEN <<None, None>>
                    ELSE <<Some(ExTarget), Some(BtbUpdate(ExIp.pc, ExTarget))>>

C4_Witness ==
    /\ ExHasBr
    /\ ExTyp = "Jalr"
    /\ ExIp.pc = 40
    /\ ExIp.bp_result.btb = 44
    /\ ExTarget = 500
    /\ ex_out.gr = <<Some(500), Some(BtbUpdate(40, 500))>>

\* C5: an unconditional jump gives no redirect and no update event, whatever
\* the ALU output, the prediction result and base/offset are.
C5_JalNoRedirectNoUpdate ==
    (ExHasBr /\ ExTyp = "Jal") => ex_out.gr = <<None, None>>

C5_Witness ==
    /\ ExHasBr
    /\ ExTyp = "Jal"
    /\ ex_in.p.v.alu_out # 0
    /\ ExIp.bp_result.bht
    /\ ExIp.bp_result.btb # ExTarget
    /\ ex_out.gr = <<None, None>>

\* the payload with its branch type replaced
ExWithTyp(t) == [ExIp EXCEPT !.br_info = Some([ExIp.br_info.v EXCEPT !.typ = t])]

\* C6: the two conditional families mirror each other: a Bne/Blt/Bltu branch
\* with a nonzero ALU output resolves like a Beq/Bge/Bgeu branch with ALU
\* output zero on the same pc, base, offset and prediction, and likewise with
\* zero and nonzero exchanged.
C6_FamiliesMirror ==
    (ExHasBr /\ ExTyp \in NeLtFamily) =>
        \A t \in EqGeFamily :
            IF ex_in.p.v.alu_out # 0
            THEN ex_out.gr = get_redirect(ExWithTyp(t), 0)
            ELSE \A a \in ExAlus \ {0} : ex_out.gr = get_redirect(ExWithTyp(t), a)

C6_Witness ==
    /\ ExHasBr
    /\ ExTyp = "Blt"
    /\ ex_in.p.v.alu_out # 0
    /\ ~ExIp.bp_result.bht
    /\ ex_out.gr = get_redirect(ExWithTyp("Beq"), 0)
    /\ ex_out.gr[1] = Some(ExTarget)

\* both the execute stage and the memory-stage resolver carry a redirect
ExBothRedirect == ex_out.done /\ ex_out.gr[1].some /\ ex_in.memr.redirect.some

\* C8 as stated: with a local and a downstream redirect in the same cycle, the
\* resolver's redirect is the locally generated one.
C8_LocalRedirectWins ==
    ExBothRedirect => ex_out.exer.redirect = ex_out.gr[1]

\* C8, amended: the downstream (memory-stage) redirect has priority; the
\* locally generated redirect is used only when the downstream resolver
\* carries none.
C8_DownstreamRedirectWins ==
    ex_out.done =>
        ex_out.exer.redirect = IF ex_in.memr.redirect.some
                               THEN ex_in.memr.redirect
                               ELSE ex_out.gr[1]

C8_Witness ==
    /\ ExBothRedirect
    /\ ex_out.gr[1] # ex_in.memr.redirect
    /\ ex_out.exer.redirect = ex_in.memr.redirect

(***************************************************************************)
(* Claims about the execute resolver (checked under SpecExe).              *)
(***************************************************************************)

\* the update events of the results the two functional-unit paths hold
ExPathEvents(path) ==
    IF path.some /\ get_redirect(path.v.ip, path.v.alu_out)[2].some
    THEN {get_redirect(path.v.ip, path.v.alu_out)[2].v}
    ELSE {}

\* the update events carried by the resolver sent to decode
ExResolverEvents == IF ex_out.exer.bp_update.some THEN {ex_out.exer.bp_update.v} ELSE {}

\* C31: the resolver sent to decode is built from one functional-unit path,
\* the ALU path when it holds a result and the multiply/divide path
\* otherwise, so it carries at most one update event per cycle.
C31_SingleResolverPath ==
    ex_out.done =>
        /\ Cardinality(ExResolverEvents) <= 1
        /\ ExResolverEvents =
              IF ex_in.p.some THEN ExPathEvents(ex_in.p) ELSE ExPathEvents(ex_in.mext)
        /\ ex_out.exer =
              IF ex_in.p.some THEN gen_resolver(ex_in.p, ex_in.memr)
                              ELSE gen_resolver(ex_in.mext, ex_in.memr)

C31_Witness ==
    /\ ex_out.done
    /\ ~ex_in.p.some
    /\ ex_in.mext.some
    /\ ExPathEvents(ex_in.mext) = {BhtUpdate(40, TRUE)}
    /\ ex_out.exer.bp_update = Some(BhtUpdate(40, TRUE))

\* C32: the resolver built by ExeR::new passes bypass_from_mem,
\* bypass_from_wb and the register-file snapshot rf of the memory-stage
\* resolver through unchanged, for every input.
C32_PassThrough ==
    ex_out.done =>
        /\ ex_out.exer.bypass_from_mem = ex_in.memr.bypass_from_mem
        /\ ex_out.exer.bypass_from_wb = ex_in.memr.bypass_from_wb
        /\ ex_out.exer.rf = ex_in.memr.rf

C32_Witness ==
    /\ ex_out.done
    /\ ex_in.memr.bypass_from_mem = Some([addr |-> 2, data |-> 5])
    /\ ex_in.memr.bypass_from_wb = None
    /\ ex_in.memr.rf = "rf1"
    /\ ex_out.exer.bypass_from_exe.some
    /\ ex_out.exer.bypass_from_mem = Some([addr |-> 2, data |-> 5])
    /\ ex_out.exer.bypass_from_wb = None
    /\ ex_out.exer.rf = "rf1"

\* the result the execute stage holds: the ALU path's or the other path's
ExHeld == IF ex_in.p.some THEN ex_in.p ELSE ex_in.mext

\* the writeback selector of the held instruction ("none" without writeback)
ExWbSel ==
    IF ExHeld.some /\ ExHeld.v.ip.wb_info.some THEN ExHeld.v.ip.wb_info.v.wb_sel ELSE "none"

\* C34: the resolver's stall field is Some(rd) exactly when execute holds a
\* valid instruction whose writeback selector is Mem or Csr, rd being its
\* destination register, and None otherwise.
C34_StallField ==
    ex_out.done =>
        ex_out.exer.stall = IF ExWbSel \in {"Mem", "Csr"}
                            THEN Some(ExHeld.v.ip.wb_info.v.addr)
                            ELSE None

C34_Witness ==
    /\ ex_out.done
    /\ ExWbSel = "Csr"
    /\ ex_out.exer.stall = Some(1)

\* C35: the resolver's bypass_from_exe field is Some(Register(rd, alu_out))
\* exactly when execute holds a valid result whose writeback selector is Alu,
\* and bypass_from_exe and stall are never both Some.
C35_BypassField ==
    ex_out.done =>
        /\ ex_out.exer.bypass_from_exe =
              IF ExWbSel = "Alu"
              THEN Some([addr |-> ExHeld.v.ip.wb_info.v.addr, data |-> ExHeld.v.alu_out])
              ELSE None
        /\ ~(ex_out.exer.bypass_from_exe.some /\ ex_out.exer.stall.some)

C35_Witness ==
    /\ ex_out.done
    /\ ExWbSel = "Alu"
    /\ ExHeld.v.alu_out = 1
    /\ ex_out.exer.bypass_from_exe = Some([addr |-> 1, data |-> 1])
    /\ ex_out.exer.stall = None

\* C36: bypass_from_exe, stall and bp_update of the resolver depend only on
\* the held payload and ALU output, not on the memory-stage resolver: they
\* are the same for every memory-stage resolver, so a branch that a
\* downstream redirect kills still emits its update event.
C36_IndependentOfDownstream ==
    ex_out.done =>
        /\ \A memr \in ExMemRs :
              LET r == gen_resolver(ExHeld, memr)
              IN  /\ r.bypass_from_exe = ex_out.exer.bypass_from_exe
                  /\ r.stall = ex_out.exer.stall
                  /\ r.bp_update = ex_out.exer.bp_update
        /\ (ExIsCond /\ ex_in.memr.redirect.some) =>
              /\ ex_out.ep = None
              /\ ex_out.exer.bp_update = Some(BhtUpdate(ExIp.pc, ExResolvedTaken))

C36_Witness ==
    /\ ExIsCond
    /\ ex_in.memr.redirect.some
    /\ ex_out.ep = None
    /\ ExWbSel = "Alu"
    /\ ex_out.exer.bypass_from_exe.some
    /\ ex_out.exer.bp_update.some

\* C37: when execute holds no valid instruction, or one without branch
\* information, the resolver carries no update event and its redirect is
\* the memory-stage resolver's redirect.
C37_NoBranchNoLocalRedirect ==
    (ex_out.done /\ (~ExHeld.some \/ ~ExHeld.v.ip.br_info.some)) =>
        /\ ex_out.exer.bp_update = None
        /\ ex_out.exer.redirect = ex_in.memr.redirect
        /\ ex_out.gr = <<None, None>>

C37_Witness ==
    /\ ex_out.done
    /\ ExHeld.some
    /\ ~ExHeld.v.ip.br_info.some
    /\ ex_in.memr.redirect = Some(8)
    /\ ex_out.exer.redirect = Some(8)
    /\ ex_out.exer.bp_update = None

(***************************************************************************)
(* Claims about the next-PC calculation (checked under SpecFet).           *)
(***************************************************************************)

\* an evaluation with a fetched instruction and no redirect in the resolver
FeSequential == fe_out.done /\ fe_in.valid /\ ~fe_in.decr.redirect.some

FeAddr == fe_in.imem_resp.addr

FeKind == fe_in.imem_resp.data.kind

FeImm == fe_in.imem_resp.data.imm

\* C15: whenever the resolver carries a redirect address, the next program
\* counter of that cycle is exactly that address, whatever the fetched
\* instruction, its classification and its BHT/BTB prediction are.
C15_RedirectWins ==
    (fe_out.done /\ fe_in.decr.redirect.some) =>
        /\ fe_out.next.some
        /\ fe_out.next.v.pc = fe_in.decr.redirect.v

C15_Witness ==
    /\ fe_out.done
    /\ fe_in.decr.redirect = Some(500)
    /\ fe_in.valid
    /\ FeKind = "Beq"
    /\ fe_out.p.v.bp_result.bht
    /\ Sum32(FeAddr, FeImm) # 500
    /\ fe_out.next.v.pc = 500

\* C17: with no redirect and a fetched instruction at current_pc, the next
\* program counter is current_pc + imm for an unconditional jump, current_pc
\* + imm for a conditional branch whose BHT bit is taken, current_pc + 4 for
\* a conditional branch whose BHT bit is not-taken, and current_pc + 4 for an
\* instruction that is no jump, indirect jump or branch.
C17_SequentialNextPc ==
    FeSequential =>
        /\ fe_out.next.some
        /\ FeKind = "Jal" => fe_out.next.v.pc = Sum32(FeAddr, FeImm)
        /\ FeKind \in (EqGeFamily \cup NeLtFamily) =>
              fe_out.next.v.pc = IF fe_out.p.v.bp_result.bht
                                 THEN Sum32(FeAddr, FeImm)
                                 ELSE Sum32(FeAddr, 4)
        /\ FeKind \notin BrTypes => fe_out.next.v.pc = Sum32(FeAddr, 4)

C17_Witness ==
    /\ FeSequential
    /\ FeKind = "Bne"
    /\ FeAddr = 100
    /\ FeImm = 8
    /\ fe_in.s.bht[100 % BHT_ENTRIES] = "WeaklyTaken"
    /\ fe_out.p.v.bp_result.bht
    /\ fe_out.next.v.pc = 108

\* C18: with no redirect and the fetched instruction an indirect jump, the
\* next program counter is the target stored in the BTB entry of its pc when
\* there is one, and current_pc + 4 when the entry is empty.
C18_IndirectNextPc ==
    (FeSequential /\ FeKind = "Jalr") =>
        LET entry == fe_in.s.btb[FeAddr % BTB_ENTRIES]
        IN  /\ fe_out.next.some
            /\ fe_out.next.v.pc = IF entry.some THEN entry.v ELSE Sum32(FeAddr, 4)

C18_Witness ==
    /\ FeSequential
    /\ FeKind = "Jalr"
    /\ FeAddr = 100
    /\ fe_in.s.btb[100 % BTB_ENTRIES] = Some(200)
    /\ fe_out.next.v.pc = 200

\* C29: the predictor transition applies a Bht event only to the BHT and a
\* Btb event only to the BTB, and a payload without an event leaves the
\* predictor state as it was.
C29_UpdateDispatch ==
    (fe_out.done /\ fe_in.valid) =>
        IF ~fe_in.bp_update.some
        THEN fe_out.s1 = fe_in.s
        ELSE LET u == fe_in.bp_update.v
             IN  IF u.tag = "Bht"
                 THEN /\ fe_out.s1.btb = fe_in.s.btb
                      /\ fe_out.s1.bht = Bht_update(fe_in.s.bht, u.pc, u.taken)
                 ELSE /\ fe_out.s1.bht = fe_in.s.bht
                      /\ fe_out.s1.btb = Btb_update(fe_in.s.btb, u.pc, u.target)

C29_Witness ==
    /\ fe_out.done
    /\ fe_in.valid
    /\ fe_in.bp_update = Some(BhtUpdate(40, TRUE))
    /\ fe_in.s.btb[4] = Some(200)
    /\ fe_out.s1.btb = fe_in.s.btb
    /\ fe_in.s.bht[0] = "WeaklyNotTaken"
    /\ fe_out.s1.bht[0] = "WeaklyTaken"

\* C13: in a cycle in which the resolver carries a redirect, fetch reports
\* ready upstream even when decode is not ready, so a pending fetch result is
\* consumed in that cycle instead of staying buffered.
C13_ReadyOnRedirect ==
    (fe_out.done /\ fe_in.decr.redirect.some) =>
        /\ fe_out.ready
        /\ fe_in.valid => fe_out.consumed

C13_Witness ==
    /\ fe_out.done
    /\ fe_in.decr.redirect.some
    /\ ~fe_in.er_ready
    /\ fe_in.valid
    /\ fe_out.ready
    /\ fe_out.consumed
    /\ ~fe_out.out.some

(***************************************************************************)
(* Claims about the saturating counter (checked under SpecSat).            *)
(***************************************************************************)

\* the order of the counter states
SatOrder == <<"StronglyNotTaken", "WeaklyNotTaken", "WeaklyTaken", "StronglyTaken">>

SatRank(c) == CHOOSE i \in 1 .. 4 : SatOrder[i] = c

SatLastCall == IF sat.calls = <<>> THEN "none" ELSE sat.calls[Len(sat.calls)]

\* C20: increment moves a counter one state up in the order StronglyNotTaken <
\* WeaklyNotTaken < WeaklyTaken < StronglyTaken and leaves StronglyTaken
\* unchanged; decrement moves it one state down and leaves StronglyNotTaken
\* unchanged; no call moves more than one step or wraps around; predict is
\* true exactly for WeaklyTaken and StronglyTaken.
C20_SaturatingSteps ==
    /\ sat.cur \in SatCounters
    /\ SatLastCall = "inc" =>
          SatRank(sat.cur) = IF SatRank(sat.prev) = 4 THEN 4 ELSE SatRank(sat.prev) + 1
    /\ SatLastCall = "dec" =>
          SatRank(sat.cur) = IF SatRank(sat.prev) = 1 THEN 1 ELSE SatRank(sat.prev) - 1
    /\ sat.pred <=> sat.cur \in {"WeaklyTaken", "StronglyTaken"}

C20_Witness ==
    /\ SatLastCall = "inc"
    /\ sat.prev = "StronglyTaken"
    /\ sat.cur = "StronglyTaken"
    /\ sat.pred
    /\ \E i \in DOMAIN sat.calls : sat.calls[i] = "dec"

\* the counter after the first k calls of the sequence
RECURSIVE SatAt(_)

SatAt(k) ==
    IF k = 0 THEN sat.start
    ELSE IF sat.calls[k] = "inc" THEN increment(SatAt(k - 1))
    ELSE decrement(SatAt(k - 1))

\* every call after the first k calls is the call op
SatOnlySince(k, op) == \A j \in (k + 1) .. Len(sat.calls) : sat.calls[j] = op

\* C21: under every call sequence from every starting state the counter is
\* one of the four states; once it is StronglyTaken, a run of increments
\* keeps it there and predict taken, and once it is StronglyNotTaken, a run
\* of decrements keeps it there and predict not-taken.
C21_StaysSaturated ==
    /\ sat.cur \in SatCounters
    /\ sat.cur = SatAt(Len(sat.calls))
    /\ \A k \in 0 .. Len(sat.calls) :
          /\ (SatAt(k) = "StronglyTaken" /\ SatOnlySince(k, "inc")) =>
                (sat.cur = "StronglyTaken" /\ sat.pred)
          /\ (SatAt(k) = "StronglyNotTaken" /\ SatOnlySince(k, "dec")) =>
                (sat.cur = "StronglyNotTaken" /\ ~sat.pred)

C21_Witness ==
    /\ Len(sat.calls) = MaxCalls
    /\ sat.start = "WeaklyNotTaken"
    /\ SatAt(1) = "StronglyNotTaken"
    /\ SatOnlySince(0, "dec")
    /\ sat.cur = "StronglyNotTaken"
    /\ ~sat.pred

(***************************************************************************)
(* Claims about the predictor tables (checked under SpecTab).              *)
(***************************************************************************)

TabCalled == tab.calls # <<>>

\* the last update call
TabLast == tab.calls[Len(tab.calls)]

TakenStates == {"WeaklyTaken", "StronglyTaken"}

\* C22: Bht.update(pc, taken) and Btb.update(pc, target) change only the
\* entry at index pc mod capacity: every other entry of the returned table
\* equals the entry of the input table.
C22_UpdateFrame ==
    TabCalled =>
        IF TabLast.tag = "Bht"
        THEN /\ DOMAIN tab.bht = DOMAIN tab.pbht
             /\ \A i \in DOMAIN tab.pbht :
                   i # TabLast.pc % BHT_ENTRIES => tab.bht[i] = tab.pbht[i]
        ELSE /\ DOMAIN tab.btb = DOMAIN tab.pbtb
             /\ \A i \in DOMAIN tab.pbtb :
                   i # TabLast.pc % BTB_ENTRIES => tab.btb[i] = tab.pbtb[i]

C22_Witness ==
    /\ TabCalled
    /\ TabLast = BhtUpdate(4, TRUE)
    /\ tab.pbht[3] = "StronglyTaken"
    /\ tab.bht[3] = "StronglyTaken"
    /\ tab.bht[4] # tab.pbht[4]

\* C23: Bht.update(pc, taken) replaces the counter at index pc mod
\* BHT_ENTRIES by its increment when taken and by its decrement when not
\* taken, and Bht.predict(pc) is the predict value of the counter at index
\* pc mod BHT_ENTRIES.
C23_BhtUpdateAndPredict ==
    /\ (TabCalled /\ TabLast.tag = "Bht") =>
          LET index == TabLast.pc % BHT_ENTRIES
              old   == SatRank(tab.pbht[index])
          IN  SatRank(tab.bht[index]) =
                IF TabLast.taken
                THEN (IF old = 4 THEN 4 ELSE old + 1)
                ELSE (IF old = 1 THEN 1 ELSE old - 1)
    /\ \A pc \in TbPcs : tab.rd.bht[pc] <=> tab.bht[pc % BHT_ENTRIES] \in TakenStates

C23_Witness ==
    /\ TabCalled
    /\ TabLast = BhtUpdate(11, FALSE)
    /\ tab.pbht[3] = "WeaklyTaken"
    /\ tab.bht[3] = "WeaklyNotTaken"
    /\ tab.prd.bht[11]
    /\ ~tab.rd.bht[11]

\* C24: after Btb.update(pc, target), Btb.predict(pc) returns Some(target),
\* whatever was stored at index pc mod BTB_ENTRIES before (nothing, or
\* another target).
C24_BtbUpdateThenPredict ==
    (TabCalled /\ TabLast.tag = "Btb") => tab.rd.btb[TabLast.pc] = Some(TabLast.target)

C24_Witness ==
    /\ TabCalled
    /\ TabLast = BtbUpdate(11, 500)
    /\ tab.pbtb[3] = Some(200)
    /\ tab.rd.btb[11] = Some(500)

\* C25: two different program counters with the same index read the same
\* prediction after any sequence of updates, in the BHT and in the BTB, so an
\* update made at one of them is visible at the other.
C25_Aliasing ==
    \A pc1, pc2 \in TbPcs :
        /\ (pc1 # pc2 /\ pc1 % BHT_ENTRIES = pc2 % BHT_ENTRIES) =>
              tab.rd.bht[pc1] = tab.rd.bht[pc2]
        /\ (pc1 # pc2 /\ pc1 % BTB_ENTRIES = pc2 % BTB_ENTRIES) =>
              tab.rd.btb[pc1] = tab.rd.btb[pc2]

C25_Witness ==
    /\ TabCalled
    /\ TabLast = BhtUpdate(3, TRUE)
    /\ ~tab.prd.bht[11]
    /\ tab.rd.bht[11]
    /\ tab.rd.bht[3]

\* C26: Btb.update is idempotent: a second Btb.update(pc, t) with the same pc
\* and t leaves the predict result at every pc as it was after the first.
C26_BtbUpdateIdempotent ==
    ( /\ Len(tab.calls) >= 2
      /\ TabLast.tag = "Btb"
      /\ tab.calls[Len(tab.calls) - 1] = TabLast ) =>
        /\ tab.rd.btb = tab.prd.btb
        /\ tab.btb = tab.pbtb

C26_Witness ==
    /\ Len(tab.calls) = 2
    /\ tab.calls = <<BtbUpdate(3, 500), BtbUpdate(3, 500)>>
    /\ tab.btb0[3] = Some(200)
    /\ tab.rd.btb[3] = Some(500)
    /\ tab.rd.btb = tab.prd.btb

\* the sequence so far starts at the default BHT and has only update(3, true)
TabOnlyTaken3 ==
    /\ tab.bht0 = Bht_default
    /\ \A i \in DOMAIN tab.calls : tab.calls[i] = BhtUpdate(3, TRUE)

\* C27: from the default BHT, three consecutive Bht.update(3, true) calls
\* take entry 3 through WeaklyNotTaken, WeaklyTaken, StronglyTaken,
\* StronglyTaken, and Bht.predict(3) is true after the second and after the
\* third update.
C27_ThreeTakenUpdates ==
    (TabOnlyTaken3 /\ Len(tab.calls) <= 3) =>
        /\ tab.bht[3] = CASE Len(tab.calls) = 0 -> "WeaklyNotTaken"
                           [] Len(tab.calls) = 1 -> "WeaklyTaken"
                           [] OTHER -> "StronglyTaken"
        /\ Len(tab.calls) >= 2 => tab.rd.bht[3]

C27_Witness ==
    /\ TabOnlyTaken3
    /\ Len(tab.calls) = 3
    /\ tab.pbht[3] = "StronglyTaken"
    /\ tab.bht[3] = "StronglyTaken"
    /\ tab.rd.bht[3]

(***************************************************************************)
(* Claims about the fetch stage and the update path (checked under Spec).  *)
(***************************************************************************)

\* the predictor step of this cycle processes a payload that carries an
\* update event and takes effect
FetStepWithUpdate == FetTransfer /\ FetIp.v.bp_update.some

\* C7 as stated: the update carried by the payload is applied before the
\* prediction for that payload is computed, so the prediction reflects it.
C7_UpdateBeforePredict ==
    FetStepWithUpdate =>
        FetP.v.bp_result =
            Bp_predict(Bp_update(bp, FetIp.v.bp_update.v), FetIp.v.imem_resp)

\* C7, amended: the prediction for the payload is computed from the predictor
\* state before the update; the update is applied in the same step and is
\* the state the next payload is predicted from.
C7_PredictBeforeUpdate ==
    [][ FetStepWithUpdate =>
          /\ FetP.v.bp_result = Bp_predict(bp, FetIp.v.imem_resp)
          /\ bp' = Bp_update(bp, FetIp.v.bp_update.v) ]_vars

C7_Witness ==
    /\ FetStepWithUpdate
    /\ Bp_predict(bp, FetIp.v.imem_resp)
         # Bp_predict(Bp_update(bp, FetIp.v.bp_update.v), FetIp.v.imem_resp)
    /\ FetP.v.bp_result = Bp_predict(bp, FetIp.v.imem_resp)

\* C9: every update event of a branch that execute resolves and retires
\* reaches the predictor: none has left execute without its update event
\* having entered the next-PC register, from which fsm_map applies it.
C9_NoUpdateLost == ~g_lost

\* how often the predictor applied the update of the followed branch id
TimesApplied(id) == Cardinality({i \in DOMAIN g_log : g_log[i] = id})

\* C10: the update of a resolved branch is applied to the predictor at most
\* once, however long the branch stays in execute.
C10_AppliedAtMostOnce == \A id \in 1 .. MaxTrack : TimesApplied(id) <= 1

\* C11: two applied updates that write the same table entry are applied in
\* the order in which their branches were resolved in execute: the update of
\* a later-resolved branch is never applied before that of an earlier one.
C11_SameEntryInOrder ==
    \A a, b \in DOMAIN g_log :
        (a < b /\ g_ent[a] = g_ent[b]) => g_log[a] <= g_log[b]

C11_Witness ==
    /\ Len(g_log) = 2
    /\ g_log[1] < g_log[2]
    /\ g_ent[1] = g_ent[2]

\* C12: in a cycle in which the resolver received by fetch carries a
\* redirect, fetch offers no payload to decode: the instruction fetched in
\* that cycle is dropped, whatever its prediction result is.
C12_RedirectDropsFetched == DecRNow.redirect.some => ~FetOut.some

C12_Witness ==
    /\ DecRNow.redirect.some
    /\ FetP.some
    /\ FetP.v.bp_result.pre_decode.is_branch
    /\ ~FetOut.some

\* C14: once a redirect is issued, no instruction of the cancelled path is
\* delivered: in the redirect cycle neither fetch nor decode hands an
\* instruction on, execute hands nothing to the memory stage under a
\* memory-stage redirect, and the request that was waiting in the next-PC
\* register for another address is not fetched and delivered to decode later.
C14_CancelledPathNotDelivered ==
    /\ DecRNow.redirect.some => (~FetOut.some /\ ~DecTransfer)
    /\ inp.mem_redirect.some => ~ExeRetires
    /\ ~(g_stale /\ FetOut.some /\ DecInReady)

\* C16: every redirect takes effect: when the redirect is no longer presented,
\* the next-PC register does not still hold the request for another address
\* that was waiting in it in the redirect cycle, so the next request issued
\* is for the redirect address.
C16_RedirectTakesEffect == ~(g_stale /\ ~DecRNow.redirect.some)

\* C19: the next-PC register starts with the start address and no update
\* event, the first memory request after reset is for the start address, and
\* without a fetched instruction and without a redirect no next PC is produced.
C19_StartAddress ==
    /\ ~g_started =>
          /\ pcreg = Some([pc |-> START_ADDR, upd |-> None])
          /\ FetIp.some => FetIp.v.imem_resp.addr = START_ADDR
    /\ (~FetP.some /\ ~DecRNow.redirect.some) => ~NextPcNow.some

C19_Witness ==
    /\ ~g_started
    /\ FetTransfer
    /\ FetIp.v.imem_resp.addr = START_ADDR
    /\ FetIp.v.bp_update = None

\* no branch or jump has reached execute since reset, so no update event has
\* been produced yet
NoUpdateYet == g_next = 1

\* C28: the predictor state starts with every BHT entry WeaklyNotTaken and
\* every BTB entry empty, so before any update Bht.predict is not-taken and
\* Btb.predict is empty at every pc, and fetch predicts not-taken.
C28_InitialPredictor ==
    NoUpdateYet =>
        /\ \A i \in 0 .. BHT_ENTRIES - 1 : bp.bht[i] = "WeaklyNotTaken"
        /\ \A i \in 0 .. BTB_ENTRIES - 1 : bp.btb[i] = None
        /\ \A pc \in 0 .. 2 * BHT_ENTRIES - 1 : ~Bht_predict(bp.bht, pc)
        /\ \A pc \in 0 .. 2 * BTB_ENTRIES - 1 : Btb_predict(bp.btb, pc) = None
        /\ FetTransfer => ~FetchFsm(FetIp.v, bp).ep.bp_result.bht

C28_Witness ==
    /\ NoUpdateYet
    /\ g_started
    /\ bp = Bp_default
    /\ decreg.some
    /\ decreg.v.bp_result.pre_decode.is_branch
    /\ ~decreg.v.bp_result.bht
    /\ FetTransfer

\* C33: in a cycle in which decode is not ready and the resolver carries no
\* redirect, fetch reports not-ready upstream in that cycle: the fetched
\* payload is not consumed, the request waiting for it stays in its register,
\* and the payload stays offered to decode.
C33_BackpressureSameCycle ==
    (~DecInReady /\ ~DecRNow.redirect.some) =>
        /\ ~FetReadyNow
        /\ ~FetTransfer
        /\ pcreg.some => ~PcLatch
        /\ FetOut = FetP

C33_Witness ==
    /\ ~DecInReady
    /\ ~DecRNow.redirect.some
    /\ FetP.some
    /\ ~FetReadyNow
    /\ ~FetTransfer
    /\ FetOut.some

\* C38: every payload fetch delivers to decode has bp_update = None: the
\* update event that came back with the memory response is consumed by the
\* predictor step and is not visible to decode.
C38_NoUpdateToDecode ==
    /\ FetOut.some => FetOut.v.bp_update = None
    /\ decreg.some => decreg.v.bp_update = None

C38_Witness ==
    /\ FetIp.some
    /\ FetIp.v.bp_update.some
    /\ FetOut.some
    /\ FetOut.v.bp_update = None
    /\ DecInReady

\* C39: a next PC the next-PC logic produces, by redirect or by prediction,
\* is paired with the update event of the same resolver and the pair is
\* latched unchanged; the event of the latched request comes back unchanged
\* with the response to that request.
C39_EventTravelsWithRequest ==
    [][ /\ NextPcNow.some => NextPcNow.v.upd = DecRNow.bp_update
        /\ PcLatch => pcreg' = Some([pc |-> NextPcNow.v.pc, upd |-> DecRNow.bp_update])
        /\ FetIp.some => /\ FetIp.v.imem_resp.addr = pcreg.v.pc
                          /\ FetIp.v.bp_update = pcreg.v.upd ]_vars

C39_Witness ==
    /\ PcLatch
    /\ DecRNow.redirect.some
    /\ DecRNow.bp_update.some
    /\ FetIp.some
    /\ FetIp.v.bp_update.some
    /\ FetIp.v.bp_update # DecRNow.bp_update

\* C30: the BHT and the BTB change only in fetch's predictor transition: in
\* every cycle in which fetch does not process a payload that carries an
\* update event the tables stay as they were, whatever decode, execute and
\* the memory stage do in that cycle.
C30_OnlyFetchWritesTables == [][~FetStepWithUpdate => bp' = bp]_vars

C30_Witness ==
    /\ ~FetStepWithUpdate
    /\ FetTransfer
    /\ DecRNow.bp_update.some
    /\ ExeRetires
    /\ bp # Bp_default

(***************************************************************************)
(* Claims about the processing element (checked under SpecPe).             *)
(***************************************************************************)

\* the last input was processed under output-stationary dataflow
PeLastOS == pe.in.some /\ pe.in.v.control.dataflow = "OS"

\* C40: under output-stationary dataflow the shift amount applied to the
\* accumulator value sent out on d is the control shift value exactly when
\* the input's propagate value differs from the stored one, and 0 otherwise;
\* after every input the stored propagate value is that input's; the
\* register selected by propagate receives the preload value and the other
\* register the MAC result.
C40_PeOutputStationary ==
    /\ pe.in.some => pe.s.propagate = pe.in.v.control.propagate
    /\ PeLastOS =>
          LET c      == pe.in.v.control
              differ == c.propagate # pe.prev.propagate
              sel    == IF c.propagate = "Reg1" THEN pe.prev.reg1 ELSE pe.prev.reg2
              other  == IF c.propagate = "Reg1" THEN pe.prev.reg2 ELSE pe.prev.reg1
              sum    == pe.in.v.a * pe.in.v.b + other
          IN  /\ pe.r.v.shamt = IF differ THEN c.shift ELSE 0
              /\ pe.r.v.out.d = IF differ THEN sel \div (2 ^ c.shift) ELSE sel
              /\ pe.r.v.mac_result = sum
              /\ IF c.propagate = "Reg1"
                 THEN pe.s.reg1 = pe.in.v.d /\ pe.s.reg2 = sum
                 ELSE pe.s.reg2 = pe.in.v.d /\ pe.s.reg1 = sum

C40_Witness ==
    /\ PeLastOS
    /\ pe.n = 2
    /\ pe.prev = PeS_new(4, 0 - 4, "Reg1")
    /\ pe.in.v = [a |-> 2, b |-> 2, d |-> 0,
                   control |-> [dataflow |-> "OS", propagate |-> "Reg2", shift |-> 2]]
    /\ pe.r.v.shamt = 2
    /\ pe.r.v.out.d = 0 - 1
    /\ pe.s = PeS_new(8, 0, "Reg2")

====
